---- MODULE Spec2Model ----
(***************************************************************************)
(* Model of wicked.k8s-init (src/index.js): a one-shot script that makes   *)
(* sure an application and a subscription exist at the wicked API gateway  *)
(* and mirrors the subscription's credentials into a Kubernetes secret.    *)
(*                                                                         *)
(* Every remote call is logged in `calls`; `results` holds, per call, how  *)
(* it was answered.  One action models one callback of the source, from    *)
(* the arrival of the answer up to the next remote call (or the exit).     *)
(***************************************************************************)
EXTENDS Integers, Sequences, FiniteSets, TLC

VARIABLES
    env,            \* process.env and the token file, as seen at startup
    app,            \* gateway: the application APP_ID, or Null
    subsList,       \* gateway: the subscriptions of application APP_ID
    secret,         \* cluster: stringData of secret SECRET_NAME, or Null
    initialRemote,  \* the remote state the run started from (history)
    calls,          \* the remote calls issued so far, in order
    results,        \* results[i]: how calls[i] was answered
    subscription,   \* results.createSubs, handed to upsertKubernetesSecret
    exitCode        \* Running, or the exit code of the process

vars == <<env, app, subsList, secret, initialRemote, calls, results,
          subscription, exitCode>>

-----------------------------------------------------------------------------
(* Values *)

\* JavaScript undefined (an unset environment variable, a missing field).
Undefined == "<undefined>"

\* JavaScript null / "no such object".
Null == [isNull |-> TRUE]

\* JavaScript truthiness of a string-or-undefined value.
Truthy(v) == v # Undefined /\ v # ""

\* exitCode while the process has not ended.
Running == -1

\* The longest subscription list the gateway starts with.
MaxSubs == 2

-----------------------------------------------------------------------------
(* Configuration, index.js:11-77 (the optional overrides are left unset) *)

APP_ID == "app-id"
API_ID == "api-id"
PLAN_ID == "unlimited"
CLIENT_TYPE == "public_spa"
SECRET_NAME == "some-secret"
NAMESPACE == "default"
USER_AGENT == "auto-deploy"
REDIRECT_URI == env.REDIRECT_URI

OtherApi == "other-api"
OtherPlan == "basic"

\* The environments a run may start in.
Environments ==
    [ KUBERNETES_SERVICE_HOST : {Undefined, "10.0.0.1"},
      KUBERNETES_SERVICE_PORT : {Undefined, "443"},
      tokenFileExists         : BOOLEAN,
      REDIRECT_URI            : {Undefined, "", "https://a|https://b"} ]

\* index.js:20-38: the startup validation.
initSuccess_NoRedirectCheck ==
    /\ Truthy(env.KUBERNETES_SERVICE_HOST)
    /\ Truthy(env.KUBERNETES_SERVICE_PORT)
    /\ env.tokenFileExists

initSuccess ==
    /\ Truthy(env.KUBERNETES_SERVICE_HOST)
    /\ Truthy(env.KUBERNETES_SERVICE_PORT)
    /\ env.tokenFileExists
    /\ Truthy(env.REDIRECT_URI)

wickedOptions ==
    [userAgentName |-> USER_AGENT, doNotPollConfigHash |-> TRUE]

-----------------------------------------------------------------------------
(* The remote systems *)

\* The credentials a subscription record may carry.
Credentials(tag) ==
    { [clientId |-> "cid" , clientSecret |-> "csec", apikey |-> Undefined],
      [clientId |-> Undefined, clientSecret |-> Undefined, apikey |-> "key"],
      [clientId |-> "cid", clientSecret |-> "csec", apikey |-> "key"],
      [clientId |-> Undefined, clientSecret |-> Undefined, apikey |-> Undefined],
      [clientId |-> "cid", clientSecret |-> "", apikey |-> "key"] }
    \X {tag}

Subs(api, plan, cred) ==
    [ application |-> APP_ID, api |-> api, plan |-> plan, issued |-> cred[2],
      clientId |-> cred[1].clientId, clientSecret |-> cred[1].clientSecret,
      apikey |-> cred[1].apikey ]

\* Subscriptions the gateway may hold before the run.
ExistingSubscriptions ==
    { Subs(API_ID, plan, cred) : plan \in {PLAN_ID, OtherPlan},
                                 cred \in Credentials("before") }
    \cup { Subs(OtherApi, PLAN_ID, cred) :
             cred \in { c \in Credentials("before") : c[1].apikey = Undefined
                                                      /\ c[1].clientId = "cid" } }

SeqsUpTo(S, n) == UNION { [1..k -> S] : k \in 0..n }

\* Applications the gateway may hold before the run.
ExistingApplications ==
    {Null} \cup
    [ id : {APP_ID}, name : {"my app"},
      clientType : {CLIENT_TYPE, "confidential"},
      redirectUri : {"https://a|https://b", "https://old"} ]

\* Secrets the cluster may hold before the run.
ExistingSecrets == {Null, [api_key |-> "stale"]}

\* An error object of the gateway SDK or of request; statusCode 0: none set.
Err(statusCode) == [statusCode |-> statusCode]
NetworkError == Err(0)

-----------------------------------------------------------------------------
(* The call log *)

Call(op, arg) == [op |-> op, arg |-> arg]

Pending(op) ==
    /\ exitCode = Running
    /\ calls # <<>>
    /\ calls[Len(calls)].op = op
    /\ results[Len(calls)] = "pending"

Resolve(r) == [results EXCEPT ![Len(results)] = r]

\* An uncaught `throw err` in a final callback: the process dies, exit code 1.
Throw(r) ==
    /\ results' = Resolve(r)
    /\ exitCode' = 1
    /\ UNCHANGED calls

\* The answered call is followed by the next remote call.
Then(r, op, arg) ==
    /\ results' = Append(Resolve(r), "pending")
    /\ calls' = Append(calls, Call(op, arg))
    /\ UNCHANGED exitCode

-----------------------------------------------------------------------------
Init ==
    /\ env \in Environments
    /\ app \in ExistingApplications
    /\ subsList \in SeqsUpTo(ExistingSubscriptions, MaxSubs)
    /\ secret \in ExistingSecrets
    /\ initialRemote = [app |-> app, subsList |-> subsList, secret |-> secret]
    /\ calls = <<>>
    /\ results = <<>>
    /\ subscription = Null
    /\ exitCode = Running

\* index.js:20-80: validate the inputs, then start the series.
Startup ==
    /\ exitCode = Running
    /\ calls = <<>>
    /\ IF ~initSuccess
         THEN /\ exitCode' = 1
              /\ UNCHANGED <<calls, results>>
         ELSE /\ calls' = <<Call("initialize", wickedOptions)>>
              /\ results' = <<"pending">>
              /\ UNCHANGED exitCode
    /\ UNCHANGED <<env, app, subsList, secret, initialRemote, subscription>>

-----------------------------------------------------------------------------
(* The gateway, as the wicked SDK presents it: answers are [err, data] *)

\* How a gateway answer is recorded in `results`.
ResultOf(err) ==
    IF err = Null THEN "ok"
    ELSE IF err.statusCode = 404 THEN "notfound" ELSE "error"

\* Any call may fail: no connection, or a non-2xx answer.
Failures == { [err |-> NetworkError, data |-> Null],
              [err |-> Err(500), data |-> Null] }

InitializeAnswers == Failures \cup {[err |-> Null, data |-> Null]}

GetApplicationAnswers ==
    Failures \cup
    (IF app = Null THEN {[err |-> Err(404), data |-> Null]}
                   ELSE {[err |-> Null, data |-> app]})

CreateApplicationAnswers ==
    Failures \cup
    (IF app # Null THEN {[err |-> Err(409), data |-> Null]}
                   ELSE {[err |-> Null, data |-> calls[Len(calls)].arg]})

GetSubscriptionsAnswers ==
    Failures \cup
    (IF app = Null THEN {[err |-> Err(404), data |-> Null]}
                   ELSE {[err |-> Null, data |-> subsList]})

\* The gateway issues the credentials of a new subscription.
CreateSubscriptionAnswers ==
    LET arg == calls[Len(calls)].arg IN
    Failures \cup
    (IF app = Null THEN {[err |-> Err(404), data |-> Null]}
     ELSE IF \E i \in 1..Len(subsList) : subsList[i].api = arg.api
       THEN {[err |-> Err(409), data |-> Null]}
       ELSE { [err |-> Null,
               data |-> [Subs(arg.api, arg.plan, cred)
                           EXCEPT !.application = arg.application]] :
              cred \in Credentials("new") })

-----------------------------------------------------------------------------
(* The cluster API, as request presents it: [err, statusCode, body] *)

secretUrl == [namespace |-> NAMESPACE, name |-> Undefined]
secretGetUrl == [namespace |-> NAMESPACE, name |-> SECRET_NAME]

TextBody(text) == [isString |-> TRUE, startsWithBracket |-> FALSE, text |-> text]
JsonBody(value) == [isString |-> FALSE, value |-> value]

HttpFailures ==
    { [err |-> NetworkError, statusCode |-> 0, body |-> Null],
      [err |-> Null, statusCode |-> 500, body |-> TextBody("Internal error")] }

HttpGetAnswers ==
    HttpFailures \cup
    (IF secret = Null
       THEN {[err |-> Null, statusCode |-> 404, body |-> TextBody("not found")]}
       ELSE {[err |-> Null, statusCode |-> 200, body |-> TextBody("a secret")]})

HttpDeleteAnswers ==
    HttpFailures \cup
    (IF secret = Null
       THEN {[err |-> Null, statusCode |-> 404, body |-> TextBody("not found")]}
       ELSE {[err |-> Null, statusCode |-> 200, body |-> TextBody("deleted")]})

HttpPostAnswers ==
    HttpFailures \cup
    (IF secret # Null
       THEN {[err |-> Null, statusCode |-> 409,
              body |-> JsonBody([reason |-> "AlreadyExists"])]}
       ELSE {[err |-> Null, statusCode |-> 201,
              body |-> JsonBody([kind |-> "Secret"])]})

\* How a cluster answer is recorded in `results`.
HttpResultOf(resp) ==
    IF resp.err # Null THEN "error"
    ELSE IF resp.statusCode = 404 THEN "notfound"
    ELSE IF resp.statusCode >= 400 THEN "error" ELSE "ok"

\* index.js:271-279
getJson(ob) ==
    IF ob.isString
      THEN IF ob.startsWithBracket THEN [parsed |-> ob.text]
                                   ELSE [message |-> ob.text]
      ELSE ob.value

\* index.js:199-216: the request callback of kubernetesAction; what it hands
\* to the caller's callback as (err, data).
kubernetesAction(method, resp) ==
    IF resp.err # Null THEN [err |-> resp.err, data |-> Null]
    ELSE IF method = "GET" /\ resp.statusCode = 404
      THEN [err |-> Null, data |-> Null]
    ELSE IF resp.statusCode >= 400
      THEN [err |-> [statusCode |-> 0, message |-> getJson(resp.body)],
            data |-> Null]
    ELSE [err |-> Null, data |-> getJson(resp.body)]

-----------------------------------------------------------------------------
(* Decisions of the reconciler *)

\* index.js:124: err && err.statusCode === 404
IsNotFound_AnyError(err) == err # Null

IsNotFound(err) == err # Null /\ err.statusCode = 404

\* index.js:130: if (appInfo)
ApplicationIsPresent_SameClientType(appInfo) ==
    appInfo # Null /\ appInfo.clientType = CLIENT_TYPE

ApplicationIsPresent(appInfo) == appInfo # Null

\* index.js:136-141: the body of the create call.
newApplication_NoSuffix(appId, redirectUri, clientType) ==
    [ id |-> appId, name |-> <<appId>>,
      clientType |-> clientType, redirectUri |-> redirectUri ]

newApplication(appId, redirectUri, clientType) ==
    [ id |-> appId, name |-> <<appId, " (auto generated)">>,
      clientType |-> clientType, redirectUri |-> redirectUri ]

\* index.js:156: subsList.find(s => s.api === apiId); Null: undefined.
find_LastMatch(list, apiId) ==
    LET hits == { i \in 1..Len(list) : list[i].api = apiId } IN
    IF hits = {} THEN Null
    ELSE list[CHOOSE i \in hits : \A j \in hits : j <= i]

find_MatchPlan(list, apiId) ==
    LET hits == { i \in 1..Len(list) :
                    list[i].api = apiId /\ list[i].plan = PLAN_ID } IN
    IF hits = {} THEN Null
    ELSE list[CHOOSE i \in hits : \A j \in hits : i <= j]

find(list, apiId) ==
    LET hits == { i \in 1..Len(list) : list[i].api = apiId } IN
    IF hits = {} THEN Null
    ELSE list[CHOOSE i \in hits : \A j \in hits : i <= j]

\* index.js:162-166: the body of the create-subscription call.
newSubscription_WrongApi(appId, apiId) ==
    [application |-> appId, api |-> appId, plan |-> PLAN_ID]

newSubscription(appId, apiId) ==
    [application |-> appId, api |-> apiId, plan |-> PLAN_ID]

\* index.js:244: if (data)
SecretIsPresent_Always(data) == TRUE

SecretIsPresent(data) == data # Null

\* index.js:252-264: the payload of the secret; Null: the data-integrity error.
stringData_ApikeyFirst(subs) ==
    IF Truthy(subs.apikey) THEN [api_key |-> subs.apikey]
    ELSE IF Truthy(subs.clientId) /\ Truthy(subs.clientSecret)
      THEN [client_id |-> subs.clientId, client_secret |-> subs.clientSecret]
    ELSE Null

stringData(subs) ==
    IF Truthy(subs.clientId) /\ Truthy(subs.clientSecret)
      THEN [client_id |-> subs.clientId, client_secret |-> subs.clientSecret]
    ELSE IF Truthy(subs.apikey) THEN [api_key |-> subs.apikey]
    ELSE Null

-----------------------------------------------------------------------------
(* The callbacks *)

\* index.js:80-81, 107-110: wicked.initialize answered.
initWickedCallback ==
    /\ Pending("initialize")
    /\ \E resp \in InitializeAnswers :
         IF resp.err # Null
           THEN Throw(ResultOf(resp.err))
           ELSE Then("ok", "initMachineUser", USER_AGENT)
    /\ UNCHANGED <<env, app, subsList, secret, initialRemote, subscription>>

\* index.js:81-82: wicked.initMachineUser answered.
initMachineUserCallback ==
    /\ Pending("initMachineUser")
    /\ \E resp \in InitializeAnswers :
         IF resp.err # Null
           THEN Throw(ResultOf(resp.err))
           ELSE Then("ok", "getApplication", APP_ID)
    /\ UNCHANGED <<env, app, subsList, secret, initialRemote, subscription>>

\* index.js:123-148 (and 83): wicked.getApplication answered.
createAppIfNotPresent ==
    /\ Pending("getApplication")
    /\ \E resp \in GetApplicationAnswers :
         LET appInfo == IF IsNotFound(resp.err) THEN Null ELSE resp.data IN
         IF ~IsNotFound(resp.err) /\ resp.err # Null
           THEN Throw(ResultOf(resp.err))
         ELSE IF ApplicationIsPresent(appInfo)
           THEN Then(ResultOf(resp.err), "getSubscriptions", APP_ID)
         ELSE Then(ResultOf(resp.err), "createApplication",
                   newApplication(APP_ID, REDIRECT_URI, CLIENT_TYPE))
    /\ UNCHANGED <<env, app, subsList, secret, initialRemote, subscription>>

\* index.js:141-147 (and 83): wicked.createApplication answered.
createApplicationCallback ==
    /\ Pending("createApplication")
    /\ \E resp \in CreateApplicationAnswers :
         IF resp.err # Null
           THEN Throw(ResultOf(resp.err)) /\ UNCHANGED app
           ELSE /\ app' = resp.data
                /\ Then("ok", "getSubscriptions", APP_ID)
    /\ UNCHANGED <<env, subsList, secret, initialRemote, subscription>>

\* index.js:153-174, then 84-97 and 231-241 when a subscription was found:
\* wicked.getSubscriptions answered.
createSubscriptionIfNotPresent ==
    /\ Pending("getSubscriptions")
    /\ \E resp \in GetSubscriptionsAnswers :
         IF resp.err # Null
           THEN Throw(ResultOf(resp.err)) /\ UNCHANGED subscription
         ELSE LET subs == find(resp.data, API_ID) IN
           IF subs # Null
             THEN /\ subscription' = subs
                  /\ Then("ok", "GET", [endpoint |-> secretGetUrl, body |-> Null])
             ELSE /\ Then("ok", "createSubscription",
                          newSubscription(APP_ID, API_ID))
                  /\ UNCHANGED subscription
    /\ UNCHANGED <<env, app, subsList, secret, initialRemote>>

\* index.js:166-173, then 84-97 and 231-241: wicked.createSubscription answered.
createSubscriptionCallback ==
    /\ Pending("createSubscription")
    /\ \E resp \in CreateSubscriptionAnswers :
         IF resp.err # Null
           THEN Throw(ResultOf(resp.err)) /\ UNCHANGED <<subsList, subscription>>
           ELSE /\ subsList' = Append(subsList, resp.data)
                /\ subscription' = resp.data
                /\ Then("ok", "GET", [endpoint |-> secretGetUrl, body |-> Null])
    /\ UNCHANGED <<env, app, secret, initialRemote>>

\* index.js:251-269 (and 98-102): derive the payload and POST it, or fail.
createKubernetesSecret(r) ==
    IF stringData(subscription) = Null
      THEN Throw(r)
      ELSE Then(r, "POST",
                [ endpoint |-> secretUrl,
                  body |-> [ metadata |-> [name |-> SECRET_NAME],
                             stringData |-> stringData(subscription) ] ])

\* index.js:241-248 (and 199-216, 236): the GET of the secret answered.
deleteKubernetesSecretIfPresent ==
    /\ Pending("GET")
    /\ \E resp \in HttpGetAnswers :
         LET out == kubernetesAction("GET", resp) IN
         IF out.err # Null THEN Throw(HttpResultOf(resp))
         ELSE IF SecretIsPresent(out.data)
           THEN Then(HttpResultOf(resp), "DELETE",
                     [endpoint |-> secretGetUrl, body |-> Null])
         ELSE createKubernetesSecret(HttpResultOf(resp))
    /\ UNCHANGED <<env, app, subsList, secret, initialRemote, subscription>>

\* index.js:245 (and 199-216, 236): the DELETE of the secret answered.
kubernetesDeleteCallback ==
    /\ Pending("DELETE")
    /\ \E resp \in HttpDeleteAnswers :
         LET out == kubernetesAction("DELETE", resp) IN
         IF out.err # Null
           THEN Throw(HttpResultOf(resp)) /\ UNCHANGED secret
           ELSE /\ secret' = Null
                /\ createKubernetesSecret(HttpResultOf(resp))
    /\ UNCHANGED <<env, app, subsList, initialRemote, subscription>>

\* index.js:265-268 (and 199-216, 97-104): the POST of the secret answered.
kubernetesPostCallback ==
    /\ Pending("POST")
    /\ \E resp \in HttpPostAnswers :
         LET out == kubernetesAction("POST", resp) IN
         IF out.err # Null
           THEN Throw(HttpResultOf(resp)) /\ UNCHANGED secret
           ELSE /\ secret' = calls[Len(calls)].arg.body.stringData
                /\ results' = Resolve(HttpResultOf(resp))
                /\ exitCode' = 0
                /\ UNCHANGED calls
    /\ UNCHANGED <<env, app, subsList, initialRemote, subscription>>

Next ==
    \/ Startup
    \/ initWickedCallback
    \/ initMachineUserCallback
    \/ createAppIfNotPresent
    \/ createApplicationCallback
    \/ createSubscriptionIfNotPresent
    \/ createSubscriptionCallback
    \/ deleteKubernetesSecretIfPresent
    \/ kubernetesDeleteCallback
    \/ kubernetesPostCallback

Spec == Init /\ [][Next]_vars

-----------------------------------------------------------------------------
(* Vocabulary of the properties *)

Idx(op) == { i \in 1..Len(calls) : calls[i].op = op }
Count(op) == Cardinality(Idx(op))
Ops == [ i \in 1..Len(calls) |-> calls[i].op ]

ClusterOps == {"GET", "DELETE", "POST"}
IsClusterOp(op) == op \in ClusterOps
ClusterTrace == SelectSeq(Ops, IsClusterOp)

Succeeded(i) == results[i] \in {"ok", "notfound"}

\* The first subscription of a list for an api, or Null.
FirstFor(list, api) ==
    IF \E i \in 1..Len(list) : list[i].api = api
      THEN list[CHOOSE i \in 1..Len(list) :
                  /\ list[i].api = api
                  /\ \A j \in 1..(i - 1) : list[j].api # api]
      ELSE Null

HasPair(s) == Truthy(s.clientId) /\ Truthy(s.clientSecret)
HasNoShape(s) == ~HasPair(s) /\ ~Truthy(s.apikey)

\* The payload the specification derives from a subscription with a shape.
Derived(s) ==
    IF HasPair(s)
      THEN [client_id |-> s.clientId, client_secret |-> s.clientSecret]
      ELSE [api_key |-> s.apikey]

DesiredName == <<APP_ID, " (auto generated)">>

-----------------------------------------------------------------------------
(* C1: a secret upsert whose cluster calls all succeed issues one GET, then *)
(* one DELETE exactly when the GET found the secret, then one POST; no POST *)
(* is issued before the GET (and the DELETE) has been answered.             *)
C1_UpsertCallOrder ==
    /\ ClusterTrace \in { <<>>, <<"GET">>, <<"GET", "DELETE">>, <<"GET", "POST">>,
                          <<"GET", "DELETE", "POST">> }
    /\ \A i \in Idx("GET") :
         /\ calls[i].arg.endpoint = secretGetUrl
         /\ results[i] = "ok" => initialRemote.secret # Null
         /\ results[i] = "notfound" => initialRemote.secret = Null
    /\ \A i \in Idx("DELETE") :
         /\ calls[i].arg.endpoint = secretGetUrl
         /\ calls[i - 1].op = "GET" /\ results[i - 1] = "ok"
    /\ \A i \in Idx("POST") :
         /\ calls[i].arg.body.metadata.name = SECRET_NAME
         /\ \A j \in 1..(i - 1) : Succeeded(j)
         /\ calls[i - 1].op = "GET" => results[i - 1] = "notfound"
    /\ exitCode = 0 =>
         ClusterTrace = IF initialRemote.secret # Null
                          THEN <<"GET", "DELETE", "POST">>
                          ELSE <<"GET", "POST">>

C1_Witness ==
    exitCode = 0 /\ ClusterTrace = <<"GET", "DELETE", "POST">>

-----------------------------------------------------------------------------
-----------------------------------------------------------------------------
-----------------------------------------------------------------------------
(* C4 as stated: a found subscription whose plan differs from the desired   *)
(* plan is deleted (one delete, no create) and no usable subscription is    *)
(* handed to the secret step.                                               *)
PlanMismatchFound ==
    /\ \E i \in Idx("getSubscriptions") : results[i] = "ok"
    /\ FirstFor(initialRemote.subsList, API_ID) # Null
    /\ FirstFor(initialRemote.subsList, API_ID).plan # PLAN_ID

-----------------------------------------------------------------------------
(* C5: a create-subscription call (exactly one, with application, api and   *)
(* the desired plan) is issued iff the listed subscriptions hold none for   *)
(* the api; then the created record is handed to the secret step, otherwise *)
(* the first listed subscription for the api, with no write call.           *)
C5_SubscriptionCreateIffAbsent ==
    LET found == FirstFor(initialRemote.subsList, API_ID) IN
    /\ Count("createSubscription") <= 1
    /\ \A i \in Idx("createSubscription") :
         /\ calls[i] = Call("createSubscription",
                            [application |-> APP_ID, api |-> API_ID,
                             plan |-> PLAN_ID])
         /\ calls[i - 1].op = "getSubscriptions" /\ results[i - 1] = "ok"
         /\ found = Null
         /\ results[i] = "ok" =>
              /\ subsList = Append(initialRemote.subsList, subscription)
              /\ subscription.issued = "new"
         /\ results[i] # "ok" => subscription = Null
    /\ \A i \in Idx("getSubscriptions") : results[i] = "ok" =>
         /\ found = Null => Len(calls) > i /\ calls[i + 1].op = "createSubscription"
         /\ found # Null =>
              /\ Count("createSubscription") = 0
              /\ Count("deleteSubscription") = 0
              /\ subsList = initialRemote.subsList
              /\ subscription = found

C5_Witness ==
    /\ exitCode = 0
    /\ \E i \in Idx("createSubscription") : results[i] = "ok"
    /\ Len(initialRemote.subsList) > 0

-----------------------------------------------------------------------------
(* C6: the payload is {client_id, client_secret} when clientId and          *)
(* clientSecret are both present (also with an apikey), {api_key} when the  *)
(* apikey is present and the pair is incomplete; with neither shape the     *)
(* operation fails and no POST is issued; never keys of both shapes.        *)
C6_PayloadShape ==
    /\ \A i \in Idx("POST") :
         LET p == calls[i].arg.body.stringData IN
         /\ HasPair(subscription) =>
              p = [client_id |-> subscription.clientId,
                   client_secret |-> subscription.clientSecret]
         /\ ~HasPair(subscription) /\ Truthy(subscription.apikey) =>
              p = [api_key |-> subscription.apikey]
         /\ DOMAIN p \in {{"client_id", "client_secret"}, {"api_key"}}
    /\ subscription # Null /\ HasNoShape(subscription) =>
         /\ Idx("POST") = {}
         /\ (\A i \in 1..Len(calls) : Succeeded(i)) => exitCode = 1

C6_Witness ==
    /\ Idx("POST") # {}
    /\ HasPair(subscription) /\ Truthy(subscription.apikey)

-----------------------------------------------------------------------------
(* C7: the payload is derived before the GET/DELETE of the existing secret: *)
(* with a subscription of neither shape the upsert fails with the secret    *)
(* store unchanged, a pre-existing secret is not deleted.                   *)
C7_FailsBeforeDelete ==
    subscription # Null /\ HasNoShape(subscription) =>
       /\ Idx("DELETE") = {}
       /\ secret = initialRemote.secret

-----------------------------------------------------------------------------
(* C8: the steps run in the order init, machine-user init, application,     *)
(* subscription, secret delete-if-present, secret create, one remote call   *)
(* outstanding at most; after the first failed call (a 404 of the           *)
(* application lookup or of the secret GET is none) no call follows,        *)
(* nothing written is rolled back and the exit code is non-zero; exit code  *)
(* 0 only if every step succeeded.                                          *)
StepOrder ==
    << "initialize", "initMachineUser", "getApplication", "createApplication",
       "getSubscriptions", "createSubscription", "GET", "DELETE", "POST" >>

Pos(op) == CHOOSE k \in 1..Len(StepOrder) : StepOrder[k] = op

IsMandatory(op) ==
    op \in {"initialize", "initMachineUser", "getApplication",
            "getSubscriptions", "GET", "POST"}

Failed(i) ==
    \/ results[i] = "error"
    \/ results[i] = "notfound" /\ calls[i].op \notin {"getApplication", "GET"}

C8_OrderedAbortOnFirstError ==
    /\ \A i \in 1..Len(calls) : calls[i].op \in { StepOrder[k] : k \in 1..Len(StepOrder) }
    /\ \A i, j \in 1..Len(calls) : i < j => Pos(calls[i].op) < Pos(calls[j].op)
    /\ \A i \in 1..Len(calls) : \A k \in 1..(Pos(calls[i].op) - 1) :
         IsMandatory(StepOrder[k]) => Idx(StepOrder[k]) # {}
    /\ \A i \in 1..Len(calls) : results[i] = "pending" => i = Len(calls)
    /\ Cardinality({ i \in 1..Len(calls) : results[i] = "pending" }) <= 1
    /\ \A i \in 1..Len(calls) : Failed(i) => i = Len(calls) /\ exitCode = 1
    /\ exitCode = 1 =>
         /\ (\E i \in Idx("createApplication") : results[i] = "ok") => app # Null
         /\ (\E i \in Idx("createSubscription") : results[i] = "ok") =>
               Len(subsList) = Len(initialRemote.subsList) + 1
         /\ Count("deleteApplication") = 0 /\ Count("deleteSubscription") = 0
    /\ exitCode = 0 =>
         /\ \A i \in 1..Len(calls) : Succeeded(i)
         /\ \A k \in 1..Len(StepOrder) :
              IsMandatory(StepOrder[k]) => Idx(StepOrder[k]) # {}

C8_Witness ==
    /\ exitCode = 1
    /\ \E i \in Idx("createApplication") : results[i] = "ok"
    /\ \E i \in Idx("createSubscription") : results[i] = "ok"
    /\ \E i \in Idx("DELETE") : results[i] = "error"

-----------------------------------------------------------------------------
(* C9: with a required startup input missing (cluster host, cluster port,   *)
(* token file, redirect URI) the process exits with code 1 and issues no    *)
(* call; no call is ever issued in a run whose validation failed.           *)
InputMissing ==
    \/ env.KUBERNETES_SERVICE_HOST \in {Undefined, ""}
    \/ env.KUBERNETES_SERVICE_PORT \in {Undefined, ""}
    \/ ~env.tokenFileExists
    \/ env.REDIRECT_URI \in {Undefined, ""}

C9_NoCallOnInvalidStartup ==
    /\ [](InputMissing => calls = <<>> /\ exitCode \in {Running, 1})
    /\ [][InputMissing => exitCode' = 1 /\ calls' = <<>>]_vars

C9_Witness ==
    /\ exitCode = 1 /\ calls = <<>>
    /\ env.REDIRECT_URI = ""
    /\ Truthy(env.KUBERNETES_SERVICE_HOST) /\ Truthy(env.KUBERNETES_SERVICE_PORT)
    /\ env.tokenFileExists

-----------------------------------------------------------------------------
(* C10: after a successful run (exit 0) the application exists, a           *)
(* subscription for (app id, api id) exists, and the last cluster write is  *)
(* a POST of the secret with the payload derived from that subscription;    *)
(* from an empty remote state the run issues one application create, one    *)
(* subscription create, one secret GET and one secret POST, nothing else.   *)
C10_SuccessfulRunPostcondition ==
    exitCode = 0 =>
       /\ app # Null /\ app.id = APP_ID
       /\ \E k \in 1..Len(subsList) :
            /\ subsList[k].application = APP_ID /\ subsList[k].api = API_ID
            /\ subsList[k] = FirstFor(subsList, API_ID)
            /\ ~HasNoShape(subsList[k])
            /\ calls[Len(calls)].op = "POST" /\ results[Len(calls)] = "ok"
            /\ calls[Len(calls)].arg.body =
                 [ metadata |-> [name |-> SECRET_NAME],
                   stringData |-> Derived(subsList[k]) ]
            /\ secret = Derived(subsList[k])
       /\ initialRemote = [app |-> Null, subsList |-> <<>>, secret |-> Null] =>
            Ops = << "initialize", "initMachineUser", "getApplication",
                     "createApplication", "getSubscriptions",
                     "createSubscription", "GET", "POST" >>

C10_Witness ==
    /\ exitCode = 0
    /\ initialRemote = [app |-> Null, subsList |-> <<>>, secret |-> Null]
====
